---------------------------- MODULE Spec2Model ----------------------------
(***************************************************************************)
(* Model of src/components/HockeyGame.tsx: the puck game component.        *)
(*                                                                         *)
(* Numbers.  Lengths of the arena (canvasSize, holes, radii) are pixels.   *)
(* Positions and velocities of the puck and the targets are fixed-point    *)
(* numbers in tenths of a pixel (the launch scale 0.1 makes a one-pixel    *)
(* drag a velocity of one tenth); products with the fractional constants   *)
(* of the source are truncated towards zero.  puckScale and the bounce and *)
(* friction factors are in thousandths.                                    *)
(*                                                                         *)
(* React.  The component's state hooks are the variables.  A handler or a  *)
(* frame callback queues its updates; they are applied in order at the     *)
(* next render, and the effects whose dependencies changed run after it.   *)
(* All callbacks of one animation frame run before that render, each with  *)
(* the values of the render that created it.                               *)
(***************************************************************************)
EXTENDS Integers, Sequences, FiniteSets, TLC

\* ------------------------------------------------------------------ constants
PUCK_RADIUS == 10
\* 0.925, in thousandths
FRICTION == 925
\* 0.9, in thousandths
WALL_BOUNCE == 900
\* 0.2 px, in tenths of a pixel
VELOCITY_THRESHOLD == 2
BORDER_WIDTH == 30
HOLE_RADIUS == 30
SINK_ANIMATION_DURATION == 500
HOLE_VERTICAL_SPACING == 300
TARGET_RADIUS == 15
\* 0.95, in thousandths
DISK_BOUNCE == 950
TARGETS_PER_SECTION == 3
\* 1.2, in tenths
COLLISION_MULTIPLIER == 12
\* points of a red and of a blue target (step, setScore)
RED_POINTS == 25
BLUE_POINTS == 10
\* const scale = 0.1 of handlePointerUp: tenths of a pixel per pixel of drag,
\* which is also the number of fixed-point units in a pixel
POWER_SCALE == 1
\* "- 40" of handleResize: the instruction text under the canvas
TEXT_HEIGHT == 40
\* the 0.1 of the physics effect's guard, in tenths of a pixel
TARGET_IDLE_SPEED == 1
\* useState(0) of viewOffset; setViewOffset is never called
viewOffset == 0

\* ------------------------------------------------------------------ bounds
\* input events of a session that start something: resizes and pointer-downs
MaxInputs == 2

\* ------------------------------------------------------------------ numbers
\* a pixel length in fixed-point units
Px(n) == n * 10

\* the value of the float NaN (no position or velocity of the model reaches it)
NaN == 0 - 100000000

IsNaN(v) == v = NaN

\* a / b truncated towards zero, b > 0
TruncDiv(a, b) == IF a >= 0 THEN a \div b ELSE 0 - ((0 - a) \div b)

\* v * (num / den) truncated towards zero
Times(v, num, den) == IF IsNaN(v) THEN NaN ELSE TruncDiv(v * num, den)

Plus(a, b) == IF IsNaN(a) \/ IsNaN(b) THEN NaN ELSE a + b

\* comparisons with NaN are false
Less(a, b) == ~IsNaN(a) /\ ~IsNaN(b) /\ a < b

Abs(v) == IF v < 0 THEN 0 - v ELSE v

Min(a, b) == IF a < b THEN a ELSE b

\* Math.sqrt of an n below limit * limit, rounded down to a fixed-point unit
ISqrt(n, limit) == CHOOSE r \in 0..limit : r * r <= n /\ n < (r + 1) * (r + 1)


\* ------------------------------------------------------------------ inputs
\* window.innerWidth and window.innerHeight of the sizes the window takes: a
\* wider and a lower one, each with room for the one section of holes
WindowSizes ==
    { [width |-> 120, height |-> 300],
      [width |-> 200, height |-> 300],
      [width |-> 120, height |-> 280] }

\* the sizes the window has when the component mounts
MountWindows ==
    { [width |-> 120, height |-> 300],
      [width |-> 200, height |-> 300] }

\* canvas points the pointer events report (getPointerPos), in pixels
PointerPositions == { <<60, 150>>, <<20, 150>> }

\* results of successive Math.random() calls, each a fraction <<num, den>> in
\* [0, 1); a generation that needs more draws than a stream has starts over
RandomStreams ==
    { << <<1, 2>>, <<0, 1>>, <<1, 2>>,        \* blue, where the puck starts
         <<0, 1>>, <<0, 1>>, <<9, 10>>,       \* red, in the mouth of the left hole
         <<3, 4>>, <<1, 5>>, <<1, 2>> >>,     \* blue, below the holes
      << <<99, 100>>, <<0, 1>>, <<4, 5>>,     \* red, in the mouth of the right hole
         <<1, 3>>, <<2, 3>>, <<1, 5>>,        \* blue, far below the holes
         <<1, 2>>, <<2, 15>>, <<3, 4>> >> }   \* red, under the puck's start

\* milliseconds between two animation frames
FrameDurations == { 250 }

\* ------------------------------------------------------------------ arena
\* the hole/target generation effect: the y of every section that gets holes
RECURSIVE SectionYsFrom(_, _, _)
SectionYsFrom(i, sections, height) ==
    IF i > sections THEN << >>
    ELSE LET y == ((2 * i + 1) * HOLE_VERTICAL_SPACING) \div 2
         IN  (IF y < height - HOLE_RADIUS THEN << y >> ELSE << >>)
             \o SectionYsFrom(i + 1, sections, height)

SectionYs(height) == SectionYsFrom(0, height \div HOLE_VERTICAL_SPACING, height)

\* the hole/target generation effect: newHoles, a left and a right hole per section
RECURSIVE NewHoles(_, _)
NewHoles(width, ys) ==
    IF ys = << >> THEN << >>
    ELSE << [x |-> BORDER_WIDTH, y |-> Head(ys)],
            [x |-> width - BORDER_WIDTH, y |-> Head(ys)] >>
         \o NewHoles(width, Tail(ys))

\* the k-th Math.random() result of a stream (k from 0)
Draw(stream, k) == stream[(k % Len(stream)) + 1]

\* generateTargetsForSection: the i-th target of a section, drawn from position k
NewTarget(width, sectionY, stream, k) ==
    LET rx == Draw(stream, k)
        ry == Draw(stream, k + 1)
        rt == Draw(stream, k + 2)
    IN  [ x |-> Px(BORDER_WIDTH + TARGET_RADIUS)
                  + TruncDiv(rx[1] * Px(width - 2 * (BORDER_WIDTH + TARGET_RADIUS)), rx[2]),
          y |-> Px(sectionY) + TruncDiv(ry[1] * Px(HOLE_VERTICAL_SPACING), ry[2]),
          vx |-> 0,
          vy |-> 0,
          type |-> IF rt[1] * 10 > 7 * rt[2] THEN "red" ELSE "blue",
          scale |-> 1,
          isVisible |-> TRUE ]

generateTargetsForSection(width, sectionY, stream, k) ==
    [ i \in 1..TARGETS_PER_SECTION |-> NewTarget(width, sectionY, stream, k + 3 * (i - 1)) ]

\* the hole/target generation effect: newTargets, those of every section in order
RECURSIVE NewTargets(_, _, _, _)
NewTargets(width, ys, stream, k) ==
    IF ys = << >> THEN << >>
    ELSE generateTargetsForSection(width, Head(ys), stream, k)
         \o NewTargets(width, Tail(ys), stream, k + 3 * TARGETS_PER_SECTION)

\* ------------------------------------------------------------------ holes
\* distance(x1, y1, x2, y2) < r, as the comparison of the squares
Within(x1, y1, x2, y2, r) ==
    /\ ~IsNaN(x1) /\ ~IsNaN(y1)
    /\ (x2 - x1) * (x2 - x1) + (y2 - y1) * (y2 - y1) < r * r

\* isOnCorrectSide of checkHoleCollision and checkTargetHoleCollision
isOnCorrectSide(hole, x, cs) ==
    IF 2 * hole.x < cs.width THEN Less(Px(hole.x), x) ELSE Less(x, Px(hole.x))

\* the test of one hole: dist < HOLE_RADIUS && isOnCorrectSide
InHole(hole, x, y, cs) ==
    /\ Within(x, y, Px(hole.x), Px(hole.y), Px(HOLE_RADIUS))
    /\ isOnCorrectSide(hole, x, cs)

checkHoleCollision(pk, hs, cs) ==
    \E k \in 1..Len(hs) : InHole(hs[k], pk.x, pk.y + viewOffset, cs)

checkTargetHoleCollision(target, hs, cs) ==
    \E k \in 1..Len(hs) : InHole(hs[k], target.x, target.y, cs)

\* ------------------------------------------------------------------ collisions
\* minDistance of handleTargetCollisions, in fixed-point units
MinDistance == (Px(PUCK_RADIUS + TARGET_RADIUS) * COLLISION_MULTIPLIER) \div 10

\* handleTargetCollisions, the test of one target: visible and distance < minDistance
Collides(target, puckX, puckY) ==
    /\ target.isVisible
    /\ Within(target.x, target.y, puckX, puckY, MinDistance)

\* nx * overlap / 2 for the component d of the collision vector; 0 / 0 is NaN
Push(d, dist) ==
    IF dist = 0 THEN NaN ELSE TruncDiv(d * (MinDistance - dist), 2 * dist)

\* handleTargetCollisions, the object returned for a target that collides
Collided(target, puckX, puckY, fvx, fvy) ==
    LET dx   == target.x - puckX
        dy   == target.y - puckY
        dist == ISqrt(dx * dx + dy * dy, MinDistance)
    IN  [ target EXCEPT !.x  = Plus(target.x, Push(dx, dist)),
                        !.y  = Plus(target.y, Push(dy, dist)),
                        !.vx = Times(0 - fvx, DISK_BOUNCE, 1000),
                        !.vy = Times(0 - fvy, DISK_BOUNCE, 1000) ]

\* the puck velocity component v after k collisions: finalPuckVx * WALL_BOUNCE each
RECURSIVE Damped(_, _)
Damped(v, k) == IF k = 0 THEN v ELSE Times(Damped(v, k - 1), WALL_BOUNCE, 1000)

\* the number of targets before the i-th that collide with the puck
HitsBefore(ts, i, puckX, puckY) ==
    Cardinality({ j \in 1..(i - 1) : Collides(ts[j], puckX, puckY) })

\* handleTargetCollisions: the targets in list order, each against the puck
\* velocity left by the collisions before it; the velocity left for the puck
handleTargetCollisions(ts, puckX, puckY, puckVx, puckVy) ==
    [ targets |->
          [ i \in 1..Len(ts) |->
                IF Collides(ts[i], puckX, puckY)
                THEN Collided(ts[i], puckX, puckY,
                              Damped(puckVx, HitsBefore(ts, i, puckX, puckY)),
                              Damped(puckVy, HitsBefore(ts, i, puckX, puckY)))
                ELSE ts[i] ],
      vx |-> Damped(puckVx, HitsBefore(ts, Len(ts) + 1, puckX, puckY)),
      vy |-> Damped(puckVy, HitsBefore(ts, Len(ts) + 1, puckX, puckY)),
      hasCollision |-> HitsBefore(ts, Len(ts) + 1, puckX, puckY) > 0 ]

\* ------------------------------------------------------------------ the tick
\* one wall test of step: the coordinate and the velocity after it; lo is TRUE for
\* the left/top wall at limit, FALSE for the right/bottom wall at limit
Wall(pv, radius, limit, lo) ==
    IF (lo /\ Less(pv[1], Px(limit + radius))) \/ (~lo /\ Less(Px(limit - radius), pv[1]))
    THEN << IF lo THEN Px(limit + radius) ELSE Px(limit - radius),
            Times(0 - pv[2], WALL_BOUNCE, 1000) >>
    ELSE pv

\* the two wall tests of one axis, in the order of step
Walls(p, v, radius, lo, hi) == Wall(Wall(<<p, v>>, radius, lo, TRUE), radius, hi, FALSE)

\* mutant of Points: the points are taken from the score
PointsTaken(target) == 0 - (IF target.type = "red" THEN RED_POINTS ELSE BLUE_POINTS)

\* points of a target (setScore in step)
Points(target) == IF target.type = "red" THEN RED_POINTS ELSE BLUE_POINTS

\* mutant of Sinks: a target that is not visible is tested as well
SinksAgain(target, hs, cs) == checkTargetHoleCollision(target, hs, cs)

\* step, the test "target fell in hole" made on the target as it was before the move
Sinks(target, hs, cs) == target.isVisible /\ checkTargetHoleCollision(target, hs, cs)

\* step, the updater of setTargets for one target
UpdateTarget(target, hs, cs) ==
    IF ~target.isVisible THEN target
    ELSE IF Sinks(target, hs, cs) THEN [ target EXCEPT !.isVisible = FALSE ]
    ELSE LET wx == Walls(Plus(target.x, target.vx), target.vx, TARGET_RADIUS,
                         BORDER_WIDTH, cs.width - BORDER_WIDTH)
             wy == Walls(Plus(target.y, target.vy), target.vy, TARGET_RADIUS,
                         0, cs.height)
         IN  [ target EXCEPT !.x  = wx[1],
                             !.y  = wy[1],
                             !.vx = Times(wx[2], FRICTION, 1000),
                             !.vy = Times(wy[2], FRICTION, 1000) ]

UpdateTargets(ts, hs, cs) == [ i \in 1..Len(ts) |-> UpdateTarget(ts[i], hs, cs) ]

RECURSIVE ScoreFrom(_, _, _, _)
ScoreFrom(ts, i, hs, cs) ==
    IF i > Len(ts) THEN 0
    ELSE (IF Sinks(ts[i], hs, cs) THEN Points(ts[i]) ELSE 0) + ScoreFrom(ts, i + 1, hs, cs)

\* the sum of the setScore updates queued by the updater of step
Scored(ts, hs, cs) == ScoreFrom(ts, 1, hs, cs)

\* step, the puck after the move, the collisions, the friction and the walls.
\* eager: the updater of handleTargetCollisions ran inside setTargets, so its
\* writes to hasCollision and finalPuckVx/Vy are seen by step; otherwise React
\* runs the updater at the next render and step reads the initial values.
MovePuck(pk, col, cs, eager) ==
    LET hit == eager /\ col.hasCollision
        x1  == IF hit THEN pk.x + TruncDiv(pk.vx, 2) ELSE pk.x + pk.vx
        y1  == IF hit THEN pk.y + TruncDiv(pk.vy, 2) ELSE pk.y + pk.vy
        vx1 == IF hit THEN Times(col.vx, DISK_BOUNCE, 1000) ELSE pk.vx
        vy1 == IF hit THEN Times(col.vy, DISK_BOUNCE, 1000) ELSE pk.vy
        wx  == Walls(x1, Times(vx1, FRICTION, 1000), PUCK_RADIUS,
                     BORDER_WIDTH, cs.width - BORDER_WIDTH)
        wy  == Walls(y1, Times(vy1, FRICTION, 1000), PUCK_RADIUS, 0, cs.height)
    IN  [ x |-> wx[1], y |-> wy[1], vx |-> wx[2], vy |-> wy[2] ]

\* step, "everything has stopped moving"
Stopped(pk) == Abs(pk.vx) < VELOCITY_THRESHOLD /\ Abs(pk.vy) < VELOCITY_THRESHOLD

\* ------------------------------------------------------------------ state
VARIABLES
    canvasSize,     \* useState: [width, height] in pixels
    puck,           \* useState: [x, y, vx, vy]
    puckScale,      \* useState, in thousandths
    dragging,       \* useState
    dragStart,      \* useState: <<x, y>> in pixels, << >> for null
    dragEnd,        \* useState: <<x, y>> in pixels, << >> for null
    isMoving,       \* useState
    isSinking,      \* useState
    holes,          \* useState: sequence of [x, y] in pixels
    targets,        \* useState: sequence of targets
    score,          \* useState
    animation,      \* physics effect: TRUE while a requested step frame is outstanding
    sinkAnimation,  \* sink effect: the animate loop and the values it closed over
    inputs,         \* resizes and pointer-downs so far
    last            \* what the last event did

vars == << canvasSize, puck, puckScale, dragging, dragStart, dragEnd, isMoving,
           isSinking, holes, targets, score, animation, sinkAnimation,
           inputs, last >>

\* no animate loop is running
NoSinkAnimation == [ active |-> FALSE, elapsed |-> 0, width |-> 0, height |-> 0 ]

\* puckScale 1
FullScale == 1000

\* what an event that runs no frame callback did
Event(op) == [ op |-> op, step |-> FALSE, animate |-> FALSE, reset |-> FALSE,
               sank |-> FALSE, settled |-> FALSE, scored |-> 0 ]

\* handleResize: the canvas of a window
CanvasOf(window) == [ width |-> window.width, height |-> window.height - TEXT_HEIGHT ]

\* resetPuck: the puck at the centre of the canvas the function closed over
CentrePuck(width, height) ==
    [ x |-> Px(width) \div 2, y |-> Px(height) \div 2, vx |-> 0, vy |-> 0 ]

\* the physics effect's guard: TRUE when the effect requests a step frame
PhysicsGuard(dr, mv, ts) ==
    ~( dr \/ ( ~mv /\ ~\E i \in 1..Len(ts) :
                          Abs(ts[i].vx) > TARGET_IDLE_SPEED \/ Abs(ts[i].vy) > TARGET_IDLE_SPEED ) )

\* The component when its mount effects have run: the state hooks' initial
\* values, the first handleResize and the generation effect for its height.
Init ==
    \E window \in MountWindows, stream \in RandomStreams :
        /\ canvasSize = CanvasOf(window)
        /\ puck = CentrePuck(window.width, window.height)
        /\ puckScale = FullScale
        /\ dragging = FALSE
        /\ dragStart = << >>
        /\ dragEnd = << >>
        /\ isMoving = FALSE
        /\ isSinking = FALSE
        /\ holes = NewHoles(window.width, SectionYs(window.height - TEXT_HEIGHT))
        /\ targets = NewTargets(window.width, SectionYs(window.height - TEXT_HEIGHT), stream, 0)
        /\ score = 0
        /\ animation = FALSE
        /\ sinkAnimation = NoSinkAnimation
        /\ inputs = 0
        /\ last = Event("mount")

\* ------------------------------------------------------------------ events
\* mutant of Resize: the resize puts the puck back at the centre of the canvas
ResizeRecentres ==
    \E window \in WindowSizes, stream \in RandomStreams :
        LET cs == CanvasOf(window)
            regenerate == cs.height # canvasSize.height
            ts == IF regenerate
                  THEN NewTargets(cs.width, SectionYs(cs.height), stream, 0)
                  ELSE targets
        IN  /\ inputs < MaxInputs
            /\ cs # canvasSize
            /\ canvasSize' = cs
            /\ puck' = [ x |-> Px(cs.width) \div 2, y |-> Px(cs.height) \div 2,
                         vx |-> 0, vy |-> 0 ]
            /\ holes' = IF regenerate THEN NewHoles(cs.width, SectionYs(cs.height)) ELSE holes
            /\ targets' = ts
            /\ animation' = PhysicsGuard(dragging, isMoving, ts)
            /\ inputs' = inputs + 1
            /\ last' = Event("resize")
            /\ UNCHANGED << puckScale, dragging, dragStart, dragEnd, isMoving,
                            isSinking, score, sinkAnimation >>

\* The resize listener, then the generation effect when the height changed,
\* then the physics effect (canvasSize is one of its dependencies).
Resize ==
    \E window \in WindowSizes, stream \in RandomStreams :
        LET cs == CanvasOf(window)
            regenerate == cs.height # canvasSize.height
            ts == IF regenerate
                  THEN NewTargets(cs.width, SectionYs(cs.height), stream, 0)
                  ELSE targets
        IN  /\ inputs < MaxInputs
            /\ cs # canvasSize
            /\ canvasSize' = cs
            /\ holes' = IF regenerate THEN NewHoles(cs.width, SectionYs(cs.height)) ELSE holes
            /\ targets' = ts
            /\ animation' = PhysicsGuard(dragging, isMoving, ts)
            /\ inputs' = inputs + 1
            /\ last' = Event("resize")
            /\ UNCHANGED << puck, puckScale, dragging, dragStart, dragEnd, isMoving,
                            isSinking, score, sinkAnimation >>

handlePointerDown ==
    \E pos \in PointerPositions :
        /\ inputs < MaxInputs
        /\ ~isMoving
        /\ dragging' = TRUE
        /\ dragStart' = pos
        /\ dragEnd' = pos
        /\ animation' = PhysicsGuard(TRUE, isMoving, targets)
        /\ inputs' = inputs + 1
        /\ last' = Event("down")
        /\ UNCHANGED << canvasSize, puck, puckScale, isMoving, isSinking, holes,
                        targets, score, sinkAnimation >>

handlePointerMove ==
    \E pos \in PointerPositions :
        /\ dragging /\ ~isMoving
        /\ pos # dragEnd
        /\ dragEnd' = pos
        /\ last' = Event("move")
        /\ UNCHANGED << canvasSize, puck, puckScale, dragging, dragStart, isMoving,
                        isSinking, holes, targets, score, animation, sinkAnimation,
                        inputs >>

\* mutant of LaunchVelocity: the shot goes where the pointer was dragged
LaunchAlongDrag(start, end) ==
    << (end[1] - start[1]) * POWER_SCALE, (end[2] - start[2]) * POWER_SCALE >>

\* handlePointerUp: dx * scale and dy * scale of the drag from start to end
LaunchVelocity(start, end) ==
    << (start[1] - end[1]) * POWER_SCALE, (start[2] - end[2]) * POWER_SCALE >>

\* handlePointerUp, for pointer-up and pointer-leave
handlePointerUp ==
    LET launch == dragging /\ dragStart # << >> /\ dragEnd # << >> /\ ~isMoving
        mv == launch \/ isMoving
    IN  /\ dragging
        /\ puck' = IF launch
                   THEN [ puck EXCEPT !.vx = LaunchVelocity(dragStart, dragEnd)[1],
                                      !.vy = LaunchVelocity(dragStart, dragEnd)[2] ]
                   ELSE puck
        /\ isMoving' = mv
        /\ dragging' = FALSE
        /\ dragStart' = << >>
        /\ dragEnd' = << >>
        /\ animation' = PhysicsGuard(FALSE, mv, targets)
        /\ last' = Event("up")
        /\ UNCHANGED << canvasSize, puckScale, isSinking, holes, targets, score,
                        sinkAnimation, inputs >>

\* ------------------------------------------------------------------ frames
\* animate: progress in thousandths after elapsed milliseconds
Progress(elapsed) == Min((elapsed * 1000) \div SINK_ANIMATION_DURATION, 1000)

\* The updates a run of step queues, from the values of the render that
\* created it (pk, cs, hs) and the targets its updaters receive (ts).
StepOf(pk, cs, hs, col, moved, sank) ==
    [ targets  |-> UpdateTargets(col.targets, hs, cs),
      scored   |-> Scored(col.targets, hs, cs),
      sank     |-> sank,
      settled  |-> ~sank /\ Stopped(moved),
      setsPuck |-> ~sank,
      puck     |-> IF ~sank /\ Stopped(moved) THEN [ moved EXCEPT !.vx = 0, !.vy = 0 ]
                   ELSE moved,
      collided |-> col.hasCollision ]

StepResult(pk, cs, hs, ts, eager) ==
    CHOOSE r \in { StepOf(pk, cs, hs, col, MovePuck(pk, col, cs, eager),
                          checkHoleCollision(pk, hs, cs)) :
                   col \in { handleTargetCollisions(ts, pk.x + pk.vx, pk.y + pk.vy,
                                                    pk.vx, pk.vy) } } : TRUE

\* One animation frame: the callbacks requested for it run in the order of
\* their requests (animate is requested inside the previous frame or by the
\* sink effect, step by the physics effect after it), then React renders the
\* queued updates and runs the effects whose dependencies changed.
Frame ==
    \E dt \in FrameDurations, eagerChoice \in BOOLEAN :
      \* an update queued earlier in the frame leaves the updater for the render
      \E r \in { StepResult(puck, canvasSize, holes, targets,
                             eagerChoice /\ ~sinkAnimation.active) } :
        LET runAnimate == sinkAnimation.active
            runStep    == animation
            elapsed    == sinkAnimation.elapsed + dt
            reset      == runAnimate /\ ~(Progress(elapsed) < 1000)
            sk         == IF runStep /\ r.sank THEN TRUE
                          ELSE IF reset THEN FALSE ELSE isSinking
            mv         == IF runStep /\ r.settled THEN FALSE
                          ELSE IF reset THEN FALSE ELSE isMoving
            ts         == IF runStep THEN r.targets ELSE targets
            depsChanged == runStep \/ reset \/ sk # isSinking
        IN  /\ runAnimate \/ runStep
            /\ (eagerChoice => runStep /\ ~runAnimate /\ r.collided /\ ~r.sank)
            /\ puck' = IF runStep /\ r.setsPuck THEN r.puck
                       ELSE IF reset THEN CentrePuck(sinkAnimation.width, sinkAnimation.height)
                       ELSE puck
            /\ puckScale' = IF reset THEN FullScale
                            ELSE IF runAnimate THEN 1000 - Progress(elapsed)
                            ELSE puckScale
            /\ isSinking' = sk
            /\ isMoving' = mv
            /\ targets' = ts
            /\ score' = IF runStep THEN score + r.scored ELSE score
            \* the sink effect starts animate when isSinking turned true
            /\ sinkAnimation' =
                   IF sk /\ ~isSinking
                   THEN [ active |-> TRUE, elapsed |-> 0,
                          width |-> canvasSize.width, height |-> canvasSize.height ]
                   ELSE IF runAnimate /\ ~reset
                   THEN [ sinkAnimation EXCEPT !.elapsed = elapsed ]
                   ELSE NoSinkAnimation
            \* the physics effect: cleanup, guard, request
            /\ animation' = IF depsChanged THEN PhysicsGuard(dragging, mv, ts) ELSE animation
            /\ last' = [ op |-> "frame", step |-> runStep, animate |-> runAnimate,
                         reset |-> reset,
                         sank |-> runStep /\ r.sank,
                         settled |-> runStep /\ r.settled,
                         scored |-> IF runStep THEN r.scored ELSE 0 ]
            /\ UNCHANGED << canvasSize, dragging, dragStart, dragEnd, holes, inputs >>

Next == Resize \/ handlePointerDown \/ handlePointerMove \/ handlePointerUp \/ Frame

Spec == Init /\ [][Next]_vars

\* frames keep coming while one is requested
FairSpec == Spec /\ WF_vars(Frame)

TypeOK ==
    /\ canvasSize \in { CanvasOf(w) : w \in WindowSizes }
    /\ dragging \in BOOLEAN /\ isMoving \in BOOLEAN /\ isSinking \in BOOLEAN
    /\ animation \in BOOLEAN
    /\ puckScale \in 0..FullScale
    /\ score \in Nat

\* ------------------------------------------------------------------ claims
\* the last event was an animation frame in which step ran
Ticked == last.op = "frame" /\ last.step

\* C1: a pointer-down is rejected while the puck is moving or the sink animation
\* is in progress: no step from a state with isMoving or isSinking starts a drag.
C1_PointerDownRejected ==
    [][ (isMoving \/ isSinking) /\ ~dragging
        => ~dragging' /\ dragStart' = << >> /\ dragEnd' = << >> ]_vars

\* C2: every sink is followed, under fair frame scheduling, by the completed
\* animation and the reset puck.
C2_SinkCompletes ==
    isSinking ~> (~isSinking /\ puckScale = FullScale /\ ~isMoving)

\* C3: in the state a completed sink animation leaves, the puck is at the
\* centre of the current canvas with velocity (0,0), puckScale is 1 and the
\* flags are ready for aiming.
C3_ResetInvariant ==
    (last.op = "frame" /\ last.reset)
    => /\ puck = CentrePuck(canvasSize.width, canvasSize.height)
       /\ puckScale = FullScale
       /\ ~isSinking /\ ~isMoving

\* C4: no physics tick runs while isSinking: a frame that starts in a state
\* with isSinking does not run step.
C4_NoTickWhileSinking ==
    [][ isSinking => ~(last'.op = "frame" /\ last'.step) ]_vars

\* C5: while dragging no physics tick runs and no step frame is outstanding, and
\* from pointer-down to pointer-up the puck, the targets and the score are unchanged.
C5_DragSuspendsPhysics ==
    [][ dragging
        => /\ ~animation
           /\ ~(last'.op = "frame" /\ last'.step)
           /\ (dragging' => puck' = puck /\ targets' = targets /\ score' = score) ]_vars

\* C6: the score never decreases.
C6_ScoreMonotone == [][ score' >= score ]_vars

\* a tick has just raised the score
C6_Witness == Ticked /\ last.scored > 0 /\ score >= last.scored

RECURSIVE SumPoints(_, _)
SumPoints(ts, idx) ==
    IF idx = {} THEN 0
    ELSE LET i == CHOOSE j \in idx : TRUE
         IN  Points(ts[i]) + SumPoints(ts, idx \ {i})

\* the targets a step marks not visible
NewlySunk == { i \in 1..Len(targets) :
                 i <= Len(targets') /\ targets[i].isVisible /\ ~targets'[i].isVisible }

\* C7: the score grows in a step by exactly the points of the targets that sink
\* in it, 25 for a red and 10 for a blue one, and a target that is not visible
\* stays so in every frame: each target contributes at most once.
C7_ScoredOnce ==
    [][ /\ score' = score + SumPoints(targets, NewlySunk)
        /\ (last'.op = "frame"
            => \A i \in 1..Len(targets) : ~targets[i].isVisible => ~targets'[i].isVisible) ]_vars

\* a red and a blue target have sunk in one tick, and a later tick has run over
\* a sunk target that still lies in a hole without scoring it again
C7_Witness ==
    /\ Ticked /\ last.scored = 0
    /\ score = RED_POINTS + BLUE_POINTS
    /\ \E i \in 1..Len(targets) :
           ~targets[i].isVisible /\ checkTargetHoleCollision(targets[i], holes, canvasSize)

\* C8: every hole's x is BORDER_WIDTH or canvasSize.width - BORDER_WIDTH.
C8_HolesOnBorders ==
    \A k \in 1..Len(holes) :
        holes[k].x = BORDER_WIDTH \/ holes[k].x = canvasSize.width - BORDER_WIDTH

\* the k-th hole is the left one of its pair (the generation effect pushes
\* the left hole, then the right one)
LeftAnchored(k) == k % 2 = 1

\* (x, y) is within HOLE_RADIUS of a hole and on the field side of it
FieldSideOfAHole(x, y) ==
    \E k \in 1..Len(holes) :
        /\ Within(x, y, Px(holes[k].x), Px(holes[k].y), Px(HOLE_RADIUS))
        /\ IF LeftAnchored(k) THEN Less(Px(holes[k].x), x) ELSE Less(x, Px(holes[k].x))

\* C9: the puck or a target sinks in a tick only from a position within
\* HOLE_RADIUS of a hole and on the field side of that hole.
C9_SinkOnFieldSide ==
    [][ last'.op = "frame" /\ last'.step
        => /\ (last'.sank => FieldSideOfAHole(puck.x, puck.y))
           /\ \A i \in NewlySunk : FieldSideOfAHole(targets'[i].x, targets'[i].y) ]_vars

Between(lo, v, hi) == ~IsNaN(v) /\ lo <= v /\ v <= hi

PuckInBounds ==
    /\ Between(Px(BORDER_WIDTH + PUCK_RADIUS), puck.x,
               Px(canvasSize.width - BORDER_WIDTH - PUCK_RADIUS))
    /\ Between(Px(PUCK_RADIUS), puck.y, Px(canvasSize.height - PUCK_RADIUS))

TargetInBounds(t) ==
    /\ Between(Px(BORDER_WIDTH + TARGET_RADIUS), t.x,
               Px(canvasSize.width - BORDER_WIDTH - TARGET_RADIUS))
    /\ Between(Px(TARGET_RADIUS), t.y, Px(canvasSize.height - TARGET_RADIUS))

\* C10: after every physics tick the puck and every visible target lie within
\* the walls.
C10_WallContainment ==
    Ticked => /\ PuckInBounds
              /\ \A i \in 1..Len(targets) : targets[i].isVisible => TargetInBounds(targets[i])

C12_TargetsSurviveResize ==
    [][ last'.op = "resize"
        => \A i \in 1..Len(targets) : i <= Len(targets') /\ targets'[i] = targets[i] ]_vars

\* C13: the pointer-up (or pointer-leave) that ends a drag gives the puck the
\* velocity (dragStart - dragEnd) * 0.1, a tenth of a pixel per pixel of drag
\* and against the drag, leaves its position and sets isMoving; the drag from
\* (500,500) to (450,460) gives (5, 4).
C13_LaunchVelocity ==
    [][ last'.op = "up" /\ dragging /\ dragStart # << >> /\ dragEnd # << >>
        => /\ puck'.vx = dragStart[1] - dragEnd[1]
           /\ puck'.vy = dragStart[2] - dragEnd[2]
           /\ puck'.x = puck.x /\ puck'.y = puck.y
           /\ isMoving'
           /\ LaunchVelocity(<<500, 500>>, <<450, 460>>) = << Px(5), Px(4) >> ]_vars

\* a drag of 40 pixels to the left has just launched the puck to the right
C13_Witness ==
    last.op = "up" /\ isMoving /\ puck.vx = Px(4) /\ puck.vy = 0 /\ ~dragging

\* C14: the pointer-up that ends a drag of length zero launches nothing:
\* isMoving stays false, the velocity stays (0,0) and no step frame is requested.
C14_ZeroDragNoLaunch ==
    [][ last'.op = "up" /\ dragging /\ dragStart = dragEnd /\ ~isMoving
        => ~isMoving' /\ puck'.vx = 0 /\ puck'.vy = 0 /\ ~animation' ]_vars

\* the square of the speed of the entity e
SpeedSq(e) == e.vx * e.vx + e.vy * e.vy

\* the square of the largest speed among the puck pk and the targets ts
MaxSpeedSq(pk, ts) ==
    CHOOSE m \in { SpeedSq(pk) } \cup { SpeedSq(ts[i]) : i \in 1..Len(ts) } :
        /\ SpeedSq(pk) <= m
        /\ \A i \in 1..Len(ts) : SpeedSq(ts[i]) <= m

\* no entity leaves a tick faster than the fastest entity entered it
EnergyDecays ==
    last'.op = "frame" /\ last'.step
    => /\ SpeedSq(puck') <= MaxSpeedSq(puck, targets)
       /\ \A i \in 1..Len(targets') : SpeedSq(targets'[i]) <= MaxSpeedSq(puck, targets)

\* the puck is at rest: settled by a tick or reset after a sink
Resolved == ~isMoving /\ puck.vx = 0 /\ puck.vy = 0

\* C15: under fair frame scheduling every launch resolves, the puck settling
\* with velocity (0,0) or sinking and being reset, and no tick leaves an entity
\* faster than the fastest entity was before it.
C15_LaunchResolves ==
    /\ isMoving ~> Resolved
    /\ [][ EnergyDecays ]_vars

\* the i-th target is as it was: same place, same velocity, same visibility
Untouched(i) == i <= Len(targets') /\ targets'[i] = targets[i]

\* C16: a target that is not visible is retired: no step makes it visible
\* again or changes its position or velocity, and in a tick the puck collides
\* with visible targets only.
C16_SunkTargetRetired ==
    [][ /\ \A i \in 1..Len(targets) : ~targets[i].isVisible => Untouched(i)
        /\ \A i \in 1..Len(targets) :
               ~targets[i].isVisible
               => ~Collides(targets[i], puck.x + puck.vx, puck.y + puck.vy) ]_vars

\* the sections whose hole pair, at y = (i + 0.5) * HOLE_VERTICAL_SPACING, fits
\* the current height
FittingSections ==
    { i \in 0..(canvasSize.height \div HOLE_VERTICAL_SPACING) :
          (2 * i + 1) * HOLE_VERTICAL_SPACING < 2 * (canvasSize.height - HOLE_RADIUS) }

\* C17: the hole list is, for the current canvas, the left and the right hole
\* of every fitting section in the order of the sections, and nothing else:
\* no duplicate and no hole of an earlier canvas size.
C17_HolesRegenerated ==
    /\ Len(holes) = 2 * Cardinality(FittingSections)
    /\ \A i \in FittingSections :
           /\ 2 * i + 2 <= Len(holes)
           /\ holes[2 * i + 1] = [ x |-> BORDER_WIDTH,
                                   y |-> ((2 * i + 1) * HOLE_VERTICAL_SPACING) \div 2 ]
           /\ holes[2 * i + 2] = [ x |-> canvasSize.width - BORDER_WIDTH,
                                   y |-> ((2 * i + 1) * HOLE_VERTICAL_SPACING) \div 2 ]

\* C18: the sink tests of a tick are made on the positions the tick produces:
\* the puck a tick commits without sinking it, and every target the tick
\* leaves visible, is outside every hole, so the puck never comes to rest
\* inside a hole.
C18_SinkTestOnTickPositions ==
    Ticked /\ ~last.sank /\ ~last.animate
    => /\ ~checkHoleCollision(puck, holes, canvasSize)
       /\ \A i \in 1..Len(targets) :
              targets[i].isVisible => ~checkTargetHoleCollision(targets[i], holes, canvasSize)

\* a frame runs step and its collision resolution moves a target: a visible
\* target is within minDistance of the place step takes the puck to
CollisionResolved ==
    /\ last'.op = "frame" /\ last'.step
    /\ \E i \in 1..Len(targets) :
           /\ Collides(targets[i], puck.x + puck.vx, puck.y + puck.vy)
           /\ i <= Len(targets') /\ targets'[i] # targets[i]

\* C19: while the puck is mid-sink, isSinking with puckScale below 1, no frame
\* resolves a collision of the puck with a target.
C19_NoCollisionMidSink ==
    [][ isSinking /\ puckScale < FullScale => ~CollisionResolved ]_vars

\* no visible target has a velocity above the 0.1 of the physics effect's guard
VisibleTargetsIdle ==
    \A i \in 1..Len(targets) :
        targets[i].isVisible
        => Abs(targets[i].vx) <= TARGET_IDLE_SPEED /\ Abs(targets[i].vy) <= TARGET_IDLE_SPEED

\* C20: the frame loop stops: when the puck is at rest and no visible target
\* has a velocity worth a tick, no step frame is outstanding, whether or not
\* targets have sunk while moving.
C20_FrameLoopStops ==
    ~isMoving /\ VisibleTargetsIdle => ~animation

\* every coordinate and velocity component of the entity e is a finite number
Finite(e) == ~IsNaN(e.x) /\ ~IsNaN(e.y) /\ ~IsNaN(e.vx) /\ ~IsNaN(e.vy)

\* C21: no tick leaves a position or a velocity that is not a number: the
\* puck and every target are finite, also after the puck's centre has met the
\* centre of a target.
C21_NoNaN ==
    Finite(puck) /\ \A i \in 1..Len(targets) : Finite(targets[i])

\* the target t is as generateTargetsForSection is to make it for section i:
\* between the borders, within the section's span, visible and at rest
SpawnedInSection(t, i, cs) ==
    /\ Between(Px(BORDER_WIDTH + TARGET_RADIUS), t.x,
               Px(cs.width - BORDER_WIDTH - TARGET_RADIUS))
    /\ Between(Px(i * HOLE_VERTICAL_SPACING), t.y, Px((i + 1) * HOLE_VERTICAL_SPACING))
    /\ t.isVisible /\ t.vx = 0 /\ t.vy = 0

\* the target list is a fresh spawn: TARGETS_PER_SECTION targets for every
\* fitting section, each spawned in its section
FreshSpawn ==
    /\ Len(targets) = TARGETS_PER_SECTION * Cardinality(FittingSections)
    /\ \A i \in FittingSections :
           \A k \in 1..TARGETS_PER_SECTION :
               /\ TARGETS_PER_SECTION * i + k <= Len(targets)
               /\ SpawnedInSection(targets[TARGETS_PER_SECTION * i + k], i, canvasSize)

\* C22: the targets the generation effect spawns, at mount and at every
\* change of the height, are TARGETS_PER_SECTION per section, each with x
\* between the borders and y within its section's span, visible, velocity 0.
C22_SpawnRanges ==
    /\ (last.op = "mount" => FreshSpawn)
    /\ [][ canvasSize'.height # canvasSize.height => FreshSpawn' ]_vars

\* C23: the flags agree with the puck: when isMoving is false the puck's
\* velocity is (0,0), and while dragging isMoving is false, so the puck is at
\* rest during every drag.
C23_FlagInvariants ==
    /\ (~isMoving => puck.vx = 0 /\ puck.vy = 0)
    /\ (dragging => ~isMoving)
=============================================================================
